---- MODULE Spec2Model ----
(***************************************************************************)
(* A model of GeoBases/GeoGridModule.py: the GeoGrid class, a geohash grid *)
(* index (key -> {case, lat_lng} and case -> [keys]) with ring ("frontier")*)
(* expansion, radius searches and the top-N closest search.                *)
(*                                                                         *)
(* Conventions of the model                                                *)
(*   - a point is <<lat, lng>> in whole degrees; None (or any malformed    *)
(*     value) is the empty tuple <<>>;                                     *)
(*   - distances and radii are whole metres: the km-error column of the    *)
(*     precision table is multiplied by 1000 (2.4 km -> 2400);             *)
(*   - a case id (geohash cell) is <<row, col, length>>: the integer       *)
(*     latitude and longitude indexes that the geohash string interleaves, *)
(*     and the length of the string, which fixes the grid the cell is in;  *)
(*   - keys are naturals, ordered as Python orders the keys when it        *)
(*     compares (dist, key) tuples;                                        *)
(*   - the iteration order of a Python set is fixed by a hidden seed drawn *)
(*     at start-up (the interpreter's hash seed);                          *)
(*   - findNearPoint and findNearKey return generators: the call and each  *)
(*     next() of their caller are steps of their own, and an add() may     *)
(*     come between two of them. findClosestFromPoint runs its expansion   *)
(*     before it returns.                                                  *)
(***************************************************************************)
EXTENDS Integers, Sequences, FiniteSets, TLC

----------------------------------------------------------------------------
(* Bounds of the model *)

\* keys are 1..NKeys
NKeys == 2
\* number of add() calls in a behaviour that also queries
MaxAdds == 2
\* number of add() calls in a behaviour that only adds
MaxIndexAdds == 3
\* number of find...() calls in a behaviour
MaxQueries == 1
\* hash seeds are -MaxSeed..0: seed 0 iterates a set in ascending order,
\* seed -1 in descending order, so that any two elements of a set come in
\* both orders
MaxSeed == 1
\* the index is built with a precision in 1..MaxPrecision; a frontier is
\* expanded on its own from case ids of the lengths 1, MaxPrecision + 1 and
\* 5 (the doctests), on indexes of other precisions too
MaxPrecision == 1
\* wanted counts N of the top-N search are 0..MaxWanted
MaxWanted == 2
\* ring counts N of a direct bounded expansion are 0..MaxRings
MaxRings == 5

----------------------------------------------------------------------------
(* Program constants *)

MAX_RECURSIVE_FRONTIER == 5000

\* precision_to_errors[p][4], in metres
AvgError(p) ==
    CASE p = 1 -> 2500000
      [] p = 2 -> 630000
      [] p = 3 -> 78000
      [] p = 4 -> 20000
      [] p = 5 -> 2400
      [] p = 6 -> 610
      [] p = 7 -> 76
      [] p = 8 -> 19

Precisions == 1..8

----------------------------------------------------------------------------
(* Small helpers *)

Abs(x) == IF x < 0 THEN -x ELSE x

Min(a, b) == IF a <= b THEN a ELSE b

Max(a, b) == IF a >= b THEN a ELSE b

RECURSIVE Pow2(_)
Pow2(n) == IF n <= 0 THEN 1 ELSE 2 * Pow2(n - 1)

\* int(float(a) / b) for a radius a and an average error b > 0 given in
\* metres. The code holds both in km, as doubles: the nearest doubles x of
\* a / 1000 and y of b / 1000 are divided and the quotient is rounded to the
\* nearest double, then int() truncates toward zero. Off the multiples of b
\* the rounding cannot cross an integer (|a| < 2^31): the result is the
\* truncated quotient. At a multiple k * b the rounded quotient is k or the
\* double just below k, and int() then gives k - 1: 4.27 / 0.61 is
\* 6.999999999999999.

\* the e with 2^e <= m / 1000 < 2^(e + 1), for m >= 1: the double of m / 1000
\* is M / 2^(52 - e) with a mantissa M of 53 bits
RECURSIVE FloatExponent(_)
FloatExponent(m) ==
    IF m >= 2000 THEN FloatExponent(m \div 2) + 1
    ELSE IF m < 1000 THEN FloatExponent(2 * m) - 1
    ELSE 0

\* 2^s modulo 1000
RECURSIVE PowMod(_)
PowMod(s) == IF s <= 0 THEN 1 ELSE (2 * PowMod(s - 1)) % 1000

\* the rounding of m / 1000 to a double: the r in -499..499 with
\* M * 1000 = m * 2^(52 - e) - r for the mantissa M (no tie occurs)
FloatResidue(m) ==
    LET x == ((m % 1000) * PowMod(52 - FloatExponent(m))) % 1000
    IN  IF x < 500 THEN x ELSE x - 1000

\* the p with 2^p < k <= 2^(p + 1), for k >= 1: the doubles just below k
\* are 2^(p - 52) apart
RECURSIVE Binade(_)
Binade(k) == IF k <= 1 THEN -1 ELSE Binade((k + 1) \div 2) + 1

\* TRUE when the double quotient of the doubles of k * b / 1000 and b / 1000
\* is below k. With x = (k * b * 2^s - rx) / (1000 * 2^s) and
\* y = (b * 2^t - ry) / (1000 * 2^t), x / y - k is
\* (k * ry - rx * 2^(t - s)) / (b * 2^t - ry); the quotient rounds below k
\* when that is under minus half the gap below k, 2^(p - 53) (a tie rounds
\* to k, whose mantissa is even).
QuotientRoundsBelow(k, b) ==
    LET s  == 52 - FloatExponent(k * b)
        t  == 52 - FloatExponent(b)
        rx == FloatResidue(k * b)
        ry == FloatResidue(b)
        n  == rx * Pow2(t - s) - k * ry
        w  == t + Binade(k) - 53
        L  == IF w >= 0 THEN n ELSE n * Pow2(-w)
        D  == IF w >= 0 THEN b * Pow2(w) ELSE b
    IN  L > D \/ (L = D /\ ry > 0)

TruncDiv(a, b) ==
    LET m == IF a < 0 THEN -a ELSE a
        k == m \div b
        q == IF k >= 1 /\ m % b = 0 /\ QuotientRoundsBelow(k, b)
             THEN k - 1 ELSE k
    IN  IF a >= 0 THEN q ELSE -q

RECURSIVE Concat(_)
Concat(ss) == IF ss = <<>> THEN <<>> ELSE Head(ss) \o Concat(Tail(ss))

Range(s) == {s[i] : i \in 1..Len(s)}

\* S itself, as an enumerated set
Enumerated(S) == {x \in S : TRUE}

----------------------------------------------------------------------------
(* The external geohash library: encode and neighbors *)

NonePoint == <<>>

\* number of latitude / longitude bits of a hash of length p: the bits
\* alternate, longitude first, five per character
LatBits(p) == (5 * p) \div 2

LngBits(p) == 5 * p - LatBits(p)

Rows(p) == Pow2(LatBits(p))

Cols(p) == Pow2(LngBits(p))

\* encode raises for a malformed point (TypeError) and for a latitude
\* outside [-90, 90) (Exception); a longitude is accepted in [-180, 180)
EncodeFails(lat_lng) ==
    \/ Len(lat_lng) # 2
    \/ lat_lng[1] < -90 \/ lat_lng[1] >= 90
    \/ lat_lng[2] < -180 \/ lat_lng[2] >= 180

encode(lat_lng, p) ==
    << ((lat_lng[1] + 90) * Rows(p)) \div 180,
       ((lat_lng[2] + 180) * Cols(p)) \div 360,
       p >>

\* neighbors: the cells around a cell, at most 8, in the grid of the
\* cell's own hash length; the longitude index wraps around, the latitude
\* index does not (no neighbour beyond a pole)
neighbors(c) ==
    { << c[1] + d[1], (c[2] + d[2] + Cols(c[3])) % Cols(c[3]), c[3] >> :
        d \in { d \in (-1..1) \X (-1..1) :
                           /\ d # <<0, 0>>
                           /\ c[1] + d[1] >= 0
                           /\ c[1] + d[1] < Rows(c[3]) } }

----------------------------------------------------------------------------
(* GeoUtils.haversine: the distance of two points, in metres *)

haversine(a, b) ==
    111000 * (Abs(a[1] - b[1])
              + Min(Abs(a[2] - b[2]), 360 - Abs(a[2] - b[2])))

----------------------------------------------------------------------------
(* The state of a GeoGrid, and of the interpreter that runs it *)

VARIABLES
    precision,   \* self._precision
    avg_radius,  \* self._avg_radius, in metres
    keys,        \* self._keys: key -> [case, lat_lng]
    grid,        \* self._grid: case id -> sequence of keys
    hashseed,    \* the interpreter's hash seed: fixes the iteration order of sets
    pep479,      \* TRUE when a StopIteration raised inside a generator becomes
                 \* a RuntimeError (Python >= 3.7), FALSE when it ends the generator
    nadds,       \* number of add() calls so far
    nqueries,    \* number of find...() calls so far
    last,        \* the last call: its arguments and what the caller observed
    it,          \* the iterator the last radius search returned, as far as
                 \* its caller has consumed it
    prev         \* the iterator of the radius search before that one

vars == <<precision, avg_radius, keys, grid, hashseed, pep479, nadds,
          nqueries, last, it, prev>>

Keys == 1..NKeys

\* from_keys=None
NoKeys == [given |-> FALSE, keys |-> {}]

FromKeys(S) == [given |-> TRUE, keys |-> S]

\* what a call leaves for its caller: its arguments, how it ended (outcome:
\* "ok", "skipped" for a rejected add, or the exception raised), the
\* materialised result, the frontiers it went through (rings, nrings as
\* recursiveFrontier gives them) and whether the recursion warning was printed
NoCall ==
    [op |-> "none", key |-> 0, lat_lng |-> NonePoint, case |-> <<>>,
     radius |-> 0, n |-> 0, double_check |-> FALSE, from_keys |-> NoKeys,
     outcome |-> "ok", result |-> <<>>, rings |-> <<>>, nrings |-> 0,
     warned |-> FALSE]

\* The iterator a radius search returns (iter([]) or a generator over
\* generators), as its caller holds it; a call that raises returns none.
\* Fixed at the call: op, key, radius, double_check,
\* lat_lng (the reference point of _check_distance), case (the case the
\* expansion starts from), n (the N of _findNearCase), born (the number of
\* add() calls made before the call). The position of the generators:
\*   live:     FALSE once the iterator is exhausted or has raised;
\*   rings, nrings, interior: the frontiers _recursiveFrontier has yielded
\*             (rings up to the first empty one) and its interior;
\*   todo:     the case ids of the current frontier that the loop of
\*             _allKeysInCases has not come to yet, in iteration order;
\*   at, idx:  the case whose bucket is being iterated (<<>> when none) and
\*             the number of its elements already taken.
\* What the caller got: result (the pairs yielded so far), warned, outcome.
NoIter ==
    [op |-> "none", key |-> 0, lat_lng |-> NonePoint, case |-> <<>>,
     radius |-> 0, n |-> 0, double_check |-> FALSE, born |-> 0,
     live |-> FALSE, rings |-> <<>>, nrings |-> 0, interior |-> {},
     todo |-> <<>>, at |-> <<>>, idx |-> 0,
     outcome |-> "ok", result |-> <<>>, warned |-> FALSE]

\* d[k] = v, as a Python dict assignment
Put(d, k, v) == [x \in (DOMAIN d) \cup {k} |-> IF x = k THEN v ELSE d[x]]

EmptyDict == [x \in {} |-> 0]

----------------------------------------------------------------------------
(* Iteration order of Python sets, and sorted() *)

\* the elements of S in ascending rank
RECURSIVE SeqByRank(_, _)
SeqByRank(S, rank) ==
    IF S = {} THEN <<>>
    ELSE LET m == CHOOSE x \in S : \A y \in S : rank[x] <= rank[y]
         IN  <<m>> \o SeqByRank(S \ {m}, rank)

\* the order of the case ids
CaseLess(a, b) == a[1] < b[1] \/ (a[1] = b[1] /\ a[2] < b[2])

\* The case ids are strings: the order in which a set of them is iterated
\* follows their randomised hashes, and every order of the set can come.
\* The seed picks one, written in the factorial number system: of the n case
\* ids left, the one with (seed % n) ids below it comes next, and the rest
\* follows under seed \div n (the floor of the quotient, and a remainder in
\* 0..n-1, for a negative seed too). Seed 0 gives the ascending order, seed 1
\* swaps the first two, the seeds below n! give all the orders of n case
\* ids; seed -1, all of whose digits are the greatest, gives the descending
\* order of a set of any size.
RECURSIVE SeqBySeed(_, _)
SeqBySeed(S, seed) ==
    IF S = {} THEN <<>>
    ELSE LET n == Cardinality(S)
             m == CHOOSE x \in S :
                     Cardinality({ y \in S : CaseLess(y, x) }) = seed % n
         IN  <<m>> \o SeqBySeed(S \ {m}, seed \div n)

\* hash of a key under the seed: a bijection for every seed
KeyHash(k) == (k * (2 * hashseed + 1)) % Pow2(NKeys)

\* for x in <a set of case ids> / <a set of keys>
IterCases(S) == SeqBySeed(S, hashseed)

IterKeys(S) == SeqByRank(S, [k \in S |-> KeyHash(k)])

\* a comparison of the distances alone
DistLess(a, b) == a[1] < b[1]

\* (dist, key) tuples compare by distance, then by key
TupleLess(a, b) == a[1] < b[1] \/ (a[1] = b[1] /\ a[2] < b[2])

\* sorted(s) for a sequence of (dist, key) tuples: stable insertion of each
\* element after the elements that are not greater
RECURSIVE Insert(_, _)
Insert(x, s) ==
    IF s = <<>> THEN <<x>>
    ELSE IF TupleLess(x, Head(s)) THEN <<x>> \o s
    ELSE <<Head(s)>> \o Insert(x, Tail(s))

RECURSIVE sorted(_)
sorted(s) ==
    IF s = <<>> THEN <<>>
    ELSE Insert(s[Len(s)], sorted(SubSeq(s, 1, Len(s) - 1)))

\* s[:n + 1]
TakeOneMore(s, n) == SubSeq(s, 1, Min(n + 1, Len(s)))

\* s[:n] for n >= 0
Take(s, n) == SubSeq(s, 1, Min(n, Len(s)))

----------------------------------------------------------------------------
(* GeoGrid.__init__, _computeCaseId, add *)

\* the key of min(), with the distance to the radius alone
SelectKeyClosest(p, q, radius) ==
    Abs(radius - AvgError(p)) < Abs(radius - AvgError(q))

\* the key of min(): (x[1][4] < radius, abs(radius - x[1][4])), False < True
SelectKeyLess(p, q, radius) ==
    LET bp == IF AvgError(p) < radius THEN 1 ELSE 0
        bq == IF AvgError(q) < radius THEN 1 ELSE 0
    IN  \/ bp < bq
        \/ bp = bq /\ Abs(radius - AvgError(p)) < Abs(radius - AvgError(q))

\* min() returns the first minimal item; the dict iterates 1..8
SelectPrecision(radius) ==
    CHOOSE p \in Precisions :
        /\ \A q \in Precisions : ~ SelectKeyLess(q, p, radius)
        /\ \A q \in 1..(p - 1) : SelectKeyLess(p, q, radius)

\* GeoGrid(radius=radius): the state after construction, the constructor
\* call left as the last call
GeoGridWithRadius(radius) ==
    /\ precision = SelectPrecision(radius)
    /\ avg_radius = AvgError(precision)
    /\ keys = EmptyDict
    /\ grid = EmptyDict
    /\ nadds = 0
    /\ nqueries = 0
    /\ last = [NoCall EXCEPT !.op = "GeoGrid", !.radius = radius]
    /\ it = NoIter
    /\ prev = NoIter

computeCaseId(lat_lng) == encode(lat_lng, precision)

\* add, with the bucket only written when its case is new (the append lost)
addNoAppend(key, lat_lng) ==
    /\ nadds' = nadds + 1
    /\ IF EncodeFails(lat_lng)
       THEN /\ keys' = keys
            /\ grid' = grid
            /\ last' = [NoCall EXCEPT !.op = "add", !.key = key,
                                       !.lat_lng = lat_lng,
                                       !.outcome = "skipped"]
       ELSE LET case_id == computeCaseId(lat_lng)
            IN  /\ keys' = Put(keys, key, [case |-> case_id, lat_lng |-> lat_lng])
                /\ grid' = IF case_id \in DOMAIN grid THEN grid
                           ELSE Put(grid, case_id, <<key>>)
                /\ last' = [NoCall EXCEPT !.op = "add", !.key = key,
                                           !.lat_lng = lat_lng,
                                           !.case = case_id]
    /\ UNCHANGED <<it, prev, precision, avg_radius, hashseed, pep479, nqueries>>

\* add, with the entry written before the case id is computed
addEntryFirst(key, lat_lng) ==
    /\ nadds' = nadds + 1
    /\ IF EncodeFails(lat_lng)
       THEN /\ keys' = Put(keys, key, [case |-> <<>>, lat_lng |-> lat_lng])
            /\ grid' = grid
            /\ last' = [NoCall EXCEPT !.op = "add", !.key = key,
                                       !.lat_lng = lat_lng,
                                       !.outcome = "skipped"]
       ELSE LET case_id == computeCaseId(lat_lng)
                bucket  == IF case_id \in DOMAIN grid THEN grid[case_id] ELSE <<>>
            IN  /\ keys' = Put(keys, key, [case |-> case_id, lat_lng |-> lat_lng])
                /\ grid' = Put(grid, case_id, Append(bucket, key))
                /\ last' = [NoCall EXCEPT !.op = "add", !.key = key,
                                           !.lat_lng = lat_lng,
                                           !.case = case_id]
    /\ UNCHANGED <<it, prev, precision, avg_radius, hashseed, pep479, nqueries>>

\* s without its elements equal to x
RECURSIVE Without(_, _)
Without(s, x) ==
    IF s = <<>> THEN <<>>
    ELSE IF Head(s) = x THEN Without(Tail(s), x)
    ELSE <<Head(s)>> \o Without(Tail(s), x)

\* add, with the key taken out of the buckets it was in (a key moved)
addMoving(key, lat_lng) ==
    /\ nadds' = nadds + 1
    /\ IF EncodeFails(lat_lng)
       THEN /\ keys' = keys
            /\ grid' = grid
            /\ last' = [NoCall EXCEPT !.op = "add", !.key = key,
                                       !.lat_lng = lat_lng,
                                       !.outcome = "skipped"]
       ELSE LET case_id == computeCaseId(lat_lng)
                cleared == [c \in DOMAIN grid |-> Without(grid[c], key)]
                bucket  == IF case_id \in DOMAIN grid THEN cleared[case_id]
                           ELSE <<>>
            IN  /\ keys' = Put(keys, key, [case |-> case_id, lat_lng |-> lat_lng])
                /\ grid' = Put(cleared, case_id, Append(bucket, key))
                /\ last' = [NoCall EXCEPT !.op = "add", !.key = key,
                                           !.lat_lng = lat_lng,
                                           !.case = case_id]
    /\ UNCHANGED <<it, prev, precision, avg_radius, hashseed, pep479, nqueries>>

\* add, with the entry only written for a key that has none (first write
\* wins)
addKeepFirst(key, lat_lng) ==
    /\ nadds' = nadds + 1
    /\ IF EncodeFails(lat_lng)
       THEN /\ keys' = keys
            /\ grid' = grid
            /\ last' = [NoCall EXCEPT !.op = "add", !.key = key,
                                       !.lat_lng = lat_lng,
                                       !.outcome = "skipped"]
       ELSE LET case_id == computeCaseId(lat_lng)
                bucket  == IF case_id \in DOMAIN grid THEN grid[case_id] ELSE <<>>
            IN  /\ keys' = IF key \in DOMAIN keys THEN keys
                           ELSE Put(keys, key,
                                    [case |-> case_id, lat_lng |-> lat_lng])
                /\ grid' = Put(grid, case_id, Append(bucket, key))
                /\ last' = [NoCall EXCEPT !.op = "add", !.key = key,
                                           !.lat_lng = lat_lng,
                                           !.case = case_id]
    /\ UNCHANGED <<it, prev, precision, avg_radius, hashseed, pep479, nqueries>>

add(key, lat_lng) ==
    /\ nadds' = nadds + 1
    /\ IF EncodeFails(lat_lng)
       THEN /\ keys' = keys
            /\ grid' = grid
            /\ last' = [NoCall EXCEPT !.op = "add", !.key = key,
                                       !.lat_lng = lat_lng,
                                       !.outcome = "skipped"]
       ELSE LET case_id == computeCaseId(lat_lng)
                bucket  == IF case_id \in DOMAIN grid THEN grid[case_id] ELSE <<>>
            IN  /\ keys' = Put(keys, key, [case |-> case_id, lat_lng |-> lat_lng])
                /\ grid' = Put(grid, case_id, Append(bucket, key))
                /\ last' = [NoCall EXCEPT !.op = "add", !.key = key,
                                           !.lat_lng = lat_lng,
                                           !.case = case_id]
    /\ UNCHANGED <<it, prev, precision, avg_radius, hashseed, pep479, nqueries>>

----------------------------------------------------------------------------
(* add, one statement at a time: while an add is under way the outcome of *)
(* the last call names the line the add is about to run                   *)

AddUnderWay == last.op = "add" /\ last.outcome \in {"line 116", "line 119"}

\* the first step of add, with the entry not written
addEntryNotWritten(key, lat_lng) ==
    /\ nadds' = nadds + 1
    /\ keys' = keys
    /\ grid' = grid
    /\ last' = IF EncodeFails(lat_lng)
               THEN [NoCall EXCEPT !.op = "add", !.key = key,
                                   !.lat_lng = lat_lng, !.outcome = "skipped"]
               ELSE [NoCall EXCEPT !.op = "add", !.key = key,
                                   !.lat_lng = lat_lng,
                                   !.case = computeCaseId(lat_lng),
                                   !.outcome = "line 116"]
    /\ UNCHANGED <<it, prev, precision, avg_radius, hashseed, pep479, nqueries>>

\* the try block and the assignment of self._keys[key]
addEntry(key, lat_lng) ==
    /\ nadds' = nadds + 1
    /\ IF EncodeFails(lat_lng)
       THEN /\ keys' = keys
            /\ last' = [NoCall EXCEPT !.op = "add", !.key = key,
                                       !.lat_lng = lat_lng,
                                       !.outcome = "skipped"]
       ELSE LET case_id == computeCaseId(lat_lng)
            IN  /\ keys' = Put(keys, key, [case |-> case_id, lat_lng |-> lat_lng])
                /\ last' = [NoCall EXCEPT !.op = "add", !.key = key,
                                           !.lat_lng = lat_lng,
                                           !.case = case_id,
                                           !.outcome = "line 116"]
    /\ grid' = grid
    /\ UNCHANGED <<it, prev, precision, avg_radius, hashseed, pep479, nqueries>>

\* if case_id not in self._grid: self._grid[case_id] = []
addBucket ==
    /\ last.op = "add"
    /\ last.outcome = "line 116"
    /\ grid' = IF last.case \in DOMAIN grid THEN grid
               ELSE Put(grid, last.case, <<>>)
    /\ last' = [last EXCEPT !.outcome = "line 119"]
    /\ UNCHANGED <<it, prev, precision, avg_radius, keys, hashseed, pep479, nadds,
                   nqueries>>

\* self._grid[case_id].append(key)
addAppend ==
    /\ last.op = "add"
    /\ last.outcome = "line 119"
    /\ grid' = Put(grid, last.case, Append(grid[last.case], last.key))
    /\ last' = [last EXCEPT !.outcome = "ok"]
    /\ UNCHANGED <<it, prev, precision, avg_radius, keys, hashseed, pep479, nadds,
                   nqueries>>

----------------------------------------------------------------------------
(* _recursiveFrontier, _nextFrontier *)

\* _nextFrontier, without the test against the interior
nextFrontierUnfiltered(frontier, interior) ==
    UNION { neighbors(cid) : cid \in frontier }

nextFrontier(frontier, interior) ==
    { k \in UNION { neighbors(cid) : cid \in frontier } :
        k \notin interior }

\* The frontiers the generator yields when it is run to its end, as
\*   rings:  the frontiers yielded, up to and including the first empty one;
\*   nrings: the number of frontiers yielded (every frontier after an empty
\*           one is empty: nextFrontier({}, interior) = {});
\*   capped: TRUE when the generator ended at i > MAX_RECURSIVE_FRONTIER.
\* limit is N when stop is True and -1 for itertools.count().
RECURSIVE frontierLoop(_, _, _, _, _)
frontierLoop(i, limit, frontier, interior, rings) ==
    IF limit >= 0 /\ i >= limit
    THEN [rings |-> rings, nrings |-> i, capped |-> FALSE]
    ELSE IF i > MAX_RECURSIVE_FRONTIER
    THEN [rings |-> rings, nrings |-> i, capped |-> TRUE]
    ELSE IF frontier = {}
    THEN \* the remaining iterations yield {} and change nothing
         IF limit >= 0 /\ limit <= MAX_RECURSIVE_FRONTIER + 1
         THEN [rings |-> Append(rings, frontier), nrings |-> limit,
               capped |-> FALSE]
         ELSE [rings |-> Append(rings, frontier),
               nrings |-> MAX_RECURSIVE_FRONTIER + 1, capped |-> TRUE]
    ELSE LET step(next) == frontierLoop(i + 1, limit, next,
                                        Enumerated(interior \cup next),
                                        Append(rings, frontier))
         IN  step(nextFrontier(frontier, interior))

\* _recursiveFrontier, with a bounded run of range(N - 1)
recursiveFrontierOneLess(case_id, N, stop) ==
    frontierLoop(0, IF stop THEN Max(N - 1, 0) ELSE -1, {case_id}, {case_id},
                 <<>>)

recursiveFrontier(case_id, N, stop) ==
    frontierLoop(0, IF stop THEN Max(N, 0) ELSE -1, {case_id}, {case_id}, <<>>)

----------------------------------------------------------------------------
(* _check_distance, _allKeysInCases, _findInAdjacentCases, _findNearCase *)

\* float('inf'), above every distance of the model
Infinity == 1000000000

\* if dist <= radius, with a strict comparison
belowRadius(dist, radius) == dist < radius

\* if dist <= radius
withinRadius(dist, radius) == dist <= radius

\* _check_distance run to its end at once, as sorted() runs it: candidate is
\* the sequence the iterator gives
RECURSIVE check_distance(_, _, _)
check_distance(candidate, ref_lat_lng, radius) ==
    IF candidate = <<>> THEN <<>>
    ELSE LET can  == Head(candidate)
             dist == haversine(ref_lat_lng, keys[can].lat_lng)
             rest == check_distance(Tail(candidate), ref_lat_lng, radius)
         IN  IF withinRadius(dist, radius) THEN <<<<dist, can>>>> \o rest
             ELSE rest

\* cases is a sequence of case ids
RECURSIVE keysOfCases(_)
keysOfCases(cases) ==
    IF cases = <<>> THEN <<>>
    ELSE (IF Head(cases) \in DOMAIN grid THEN grid[Head(cases)] ELSE <<>>)
         \o keysOfCases(Tail(cases))

\* _allKeysInCases run to its end at once, as set() runs it: cases is a
\* frontier, a set, whose case ids come in the set's iteration order
allKeysInCases(cases) == keysOfCases(IterCases(cases))

\* _findInAdjacentCases(case_id, N): a generator, nothing of it run yet
findInAdjacentCases(case_id, N) ==
    [NoIter EXCEPT !.case = case_id, !.n = N, !.live = TRUE]

\* the N of _findNearCase, without the case of a radius equal to the average
nearNNoEqual(radius) == TruncDiv(radius, avg_radius) + 2

\* the N of _findNearCase
nearN(radius) ==
    IF radius = avg_radius THEN 2 ELSE TruncDiv(radius, avg_radius) + 2

findNearCase(case_id, radius) == findInAdjacentCases(case_id, nearN(radius))

\* ((0, can) for can in candidate), run to its end at once
zeroDist(candidate) == [i \in 1..Len(candidate) |-> <<0, candidate[i]>>]

\* for key in self._grid[case_id]: the loop over the bucket of a case
\* begins, past the first element of the bucket
bucketEnteredPastFirst(g, case_id) == [g EXCEPT !.at = case_id, !.idx = 1]

\* for key in self._grid[case_id]: the loop over the bucket of a case begins
bucketEntered(g, case_id) == [g EXCEPT !.at = case_id, !.idx = 0]

\* next(g) on the iterator of a radius search: the generators run on from
\* where they stand, reading self._grid and self._keys as they are now,
\* until _check_distance (double_check) or the generator expression yields
\* a pair, or until _recursiveFrontier ends. A bucket is a list that add()
\* appends to in place: an element appended to the bucket under iteration
\* is found after the others. After an empty frontier every frontier is
\* empty and the generators yield nothing: they run to the end of range(N)
\* or to the cap.
RECURSIVE resume(_)
resume(g) ==
    IF g.at # <<>>
    THEN \* for key in self._grid[case_id]
         IF g.idx < Len(grid[g.at])
         THEN LET can  == grid[g.at][g.idx + 1]
                  dist == IF g.double_check
                          THEN haversine(g.lat_lng, keys[can].lat_lng)
                          ELSE 0
                  g1   == [g EXCEPT !.idx = g.idx + 1]
              IN  IF g.double_check => withinRadius(dist, g.radius)
                  THEN [g1 EXCEPT !.result = Append(g.result, <<dist, can>>)]
                  ELSE resume(g1)
         ELSE resume([g EXCEPT !.at = <<>>, !.idx = 0])
    ELSE IF g.todo # <<>>
    THEN \* for case_id in cases: if case_id in self._grid (the loop goes
         \* on to the first case id of the grid, if there is one)
         LET hits == { j \in 1..Len(g.todo) : g.todo[j] \in DOMAIN grid }
             goOn(j) == resume(bucketEntered(
                            [g EXCEPT !.todo = SubSeq(g.todo, j + 1,
                                                      Len(g.todo))],
                            g.todo[j]))
         IN  IF hits = {} THEN resume([g EXCEPT !.todo = <<>>])
             ELSE goOn(CHOOSE j \in hits : \A k \in hits : j <= k)
    ELSE \* for i in gen, with i = g.nrings
         IF g.nrings >= Max(g.n, 0)
         THEN [g EXCEPT !.live = FALSE]
         ELSE IF g.nrings > MAX_RECURSIVE_FRONTIER
         THEN [g EXCEPT !.live = FALSE, !.warned = TRUE,
                        !.outcome = IF pep479 THEN "RuntimeError" ELSE "ok"]
         ELSE IF g.nrings >= 1 /\ g.rings[Len(g.rings)] = {}
         THEN resume([g EXCEPT !.nrings =
                                  Min(g.n, MAX_RECURSIVE_FRONTIER + 1)])
         ELSE LET step(frontier) ==
                      resume([g EXCEPT !.rings = Append(g.rings, frontier),
                                       !.nrings = g.nrings + 1,
                                       !.interior =
                                          Enumerated(g.interior \cup frontier),
                                       !.todo = IterCases(frontier)])
              IN  step(IF g.nrings = 0 THEN {g.case}
                       ELSE nextFrontier(g.rings[g.nrings], g.interior))

----------------------------------------------------------------------------
(* findNearPoint, findNearKey *)

\* findNearPoint, without the early return on a missing point
findNearPointNoNoneCheck(lat_lng, radius, double_check) ==
    LET call == [NoCall EXCEPT !.op = "findNearPoint", !.lat_lng = lat_lng,
                               !.radius = radius,
                               !.double_check = double_check]
    IN
    /\ nqueries' = nqueries + 1
    /\ IF EncodeFails(lat_lng)
       THEN /\ last' = [call EXCEPT !.outcome = IF lat_lng = NonePoint
                                                THEN "TypeError"
                                                ELSE "Exception"]
            /\ UNCHANGED <<it, prev>>
       ELSE /\ last' = call
            /\ prev' = it
            /\ \E candidate \in {findNearCase(computeCaseId(lat_lng), radius)} :
                  it' = [candidate EXCEPT !.op = "findNearPoint",
                                          !.lat_lng = lat_lng,
                                          !.radius = radius,
                                          !.double_check = double_check,
                                          !.born = nadds]
    /\ UNCHANGED <<precision, avg_radius, keys, grid, hashseed, pep479, nadds>>

\* findNearPoint, with an empty bucket created for the case of the point
\* (the bucket read with setdefault)
findNearPointSettingDefault(lat_lng, radius, double_check) ==
    LET call == [NoCall EXCEPT !.op = "findNearPoint", !.lat_lng = lat_lng,
                               !.radius = radius,
                               !.double_check = double_check]
        args == [NoIter EXCEPT !.op = "findNearPoint", !.lat_lng = lat_lng,
                               !.radius = radius,
                               !.double_check = double_check,
                               !.born = nadds]
    IN
    /\ nqueries' = nqueries + 1
    /\ IF lat_lng = NonePoint
       THEN last' = call /\ it' = args /\ prev' = it
       ELSE IF EncodeFails(lat_lng)
       THEN /\ last' = [call EXCEPT !.outcome = "Exception"]
            /\ UNCHANGED <<it, prev>>
       ELSE /\ last' = call
            /\ prev' = it
            /\ \E candidate \in {findNearCase(computeCaseId(lat_lng), radius)} :
                  it' = [candidate EXCEPT !.op = "findNearPoint",
                                          !.lat_lng = lat_lng,
                                          !.radius = radius,
                                          !.double_check = double_check,
                                          !.born = nadds]
    /\ grid' = IF EncodeFails(lat_lng) \/ computeCaseId(lat_lng) \in DOMAIN grid
               THEN grid
               ELSE Put(grid, computeCaseId(lat_lng), <<>>)
    /\ UNCHANGED <<precision, avg_radius, keys, hashseed, pep479, nadds>>

\* The call of findNearPoint: the test of the point, _computeCaseId and the
\* N of _findNearCase; what it returns is iter([]) or a generator of which
\* nothing has run. Neither _check_distance nor the generator expression
\* reads the index before the caller asks for an element.
findNearPoint(lat_lng, radius, double_check) ==
    LET call == [NoCall EXCEPT !.op = "findNearPoint", !.lat_lng = lat_lng,
                               !.radius = radius,
                               !.double_check = double_check]
        args == [NoIter EXCEPT !.op = "findNearPoint", !.lat_lng = lat_lng,
                               !.radius = radius,
                               !.double_check = double_check,
                               !.born = nadds]
    IN
    /\ nqueries' = nqueries + 1
    /\ IF lat_lng = NonePoint
       THEN last' = call /\ it' = args /\ prev' = it
       ELSE IF EncodeFails(lat_lng)
       THEN /\ last' = [call EXCEPT !.outcome = "Exception"]
            /\ UNCHANGED <<it, prev>>
       ELSE /\ last' = call
            /\ prev' = it
            /\ \E candidate \in {findNearCase(computeCaseId(lat_lng), radius)} :
                  it' = [candidate EXCEPT !.op = "findNearPoint",
                                          !.lat_lng = lat_lng,
                                          !.radius = radius,
                                          !.double_check = double_check,
                                          !.born = nadds]
    /\ UNCHANGED <<precision, avg_radius, keys, grid, hashseed, pep479, nadds>>

\* The call of findNearKey: the test of the key, its case, the N of
\* _findNearCase and, with double_check, its point as the reference point
\* of _check_distance: the point the key has at the call.
findNearKey(key, radius, double_check) ==
    LET call == [NoCall EXCEPT !.op = "findNearKey", !.key = key,
                               !.radius = radius,
                               !.double_check = double_check]
        args == [NoIter EXCEPT !.op = "findNearKey", !.key = key,
                               !.radius = radius,
                               !.double_check = double_check,
                               !.born = nadds]
    IN
    /\ nqueries' = nqueries + 1
    /\ prev' = it
    /\ last' = call
    /\ IF key \notin DOMAIN keys
       THEN it' = args
       ELSE \E candidate \in {findNearCase(keys[key].case, radius)} :
               it' = [candidate EXCEPT !.op = "findNearKey",
                                       !.key = key,
                                       !.lat_lng = IF double_check
                                                   THEN keys[key].lat_lng
                                                   ELSE NonePoint,
                                       !.radius = radius,
                                       !.double_check = double_check,
                                       !.born = nadds]
    /\ UNCHANGED <<precision, avg_radius, keys, grid, hashseed, pep479, nadds>>

\* next(it), by the caller of the radius search
IterNext ==
    /\ it.live
    /\ it' = resume(it)
    /\ UNCHANGED <<precision, avg_radius, keys, grid, hashseed, pep479, nadds,
                   nqueries, last, prev>>

----------------------------------------------------------------------------
(* findClosestFromPoint *)

\* closestLoop, with a break that does not look at the size of the frontier
RECURSIVE closestLoopAnyFrontier(_, _, _, _, _)
closestLoopAnyFrontier(fr, i, found, N, from_keys) ==
    IF i > Len(fr.rings)
    THEN [found |-> found, processed |-> fr.nrings, broke |-> FALSE]
    ELSE LET frontier == fr.rings[i]
             body(found2) ==
                 IF Cardinality(found2) >= N
                 THEN [found |-> found2, processed |-> i, broke |-> TRUE]
                 ELSE closestLoopAnyFrontier(fr, i + 1, found2, N, from_keys)
         IN  body(IF from_keys.given
                  THEN (found \cup Range(allKeysInCases(frontier)))
                          \cap from_keys.keys
                  ELSE found \cup Range(allKeysInCases(frontier)))

\* The loop over the frontiers fr of the unbounded generator, from the i-th
\* one, with the keys found so far:
\*   found:     the keys found when the loop is left;
\*   processed: the number of frontiers the loop body ran on;
\*   broke:     TRUE when the loop was left by its break.
RECURSIVE closestLoop(_, _, _, _, _)
closestLoop(fr, i, found, N, from_keys) ==
    IF i > Len(fr.rings)
    THEN \* every further frontier is empty: found stays, the break
         \* condition is false, the generator runs to its end
         [found |-> found, processed |-> fr.nrings, broke |-> FALSE]
    ELSE LET frontier == fr.rings[i]
             body(found2) ==
                 IF Cardinality(found2) >= N /\ Cardinality(frontier) > 1
                 THEN [found |-> found2, processed |-> i, broke |-> TRUE]
                 ELSE closestLoop(fr, i + 1, found2, N, from_keys)
         IN  body(IF from_keys.given
                  THEN (found \cup Range(allKeysInCases(frontier)))
                          \cap from_keys.keys
                  ELSE found \cup Range(allKeysInCases(frontier)))

\* findClosestFromPoint, without the early return on an empty from_keys
findClosestNoShortCircuit(lat_lng, wanted, double_check, from_keys) ==
    LET call == [NoCall EXCEPT !.op = "findClosestFromPoint",
                               !.lat_lng = lat_lng, !.n = wanted,
                               !.double_check = double_check,
                               !.from_keys = from_keys]
    IN
    /\ nqueries' = nqueries + 1
    /\ IF EncodeFails(lat_lng)
       THEN last' = [call EXCEPT !.outcome = IF lat_lng = NonePoint
                                             THEN "TypeError" ELSE "Exception"]
       ELSE \E N \in {Min(wanted, Cardinality(DOMAIN keys))} :
            \E case_id \in {computeCaseId(lat_lng)} :
            \E fr \in {recursiveFrontier(case_id, 1, FALSE)} :
            \E loop \in {closestLoop(fr, 1, {}, N, from_keys)} :
            \E found \in {IterKeys(loop.found)} :
            \E seen \in {[call EXCEPT !.case = case_id,
                                      !.rings = SubSeq(fr.rings, 1,
                                          Min(loop.processed, Len(fr.rings))),
                                      !.nrings = loop.processed,
                                      !.warned = ~ loop.broke]} :
               last' = IF ~ loop.broke /\ pep479
                       THEN [seen EXCEPT !.outcome = "RuntimeError"]
                       ELSE [seen EXCEPT !.result =
                               IF double_check
                               THEN Take(sorted(check_distance(found, lat_lng,
                                                               Infinity)), N)
                               ELSE zeroDist(found)]
    /\ UNCHANGED <<it, prev, precision, avg_radius, keys, grid, hashseed, pep479, nadds>>

findClosestFromPoint(lat_lng, wanted, double_check, from_keys) ==
    LET call == [NoCall EXCEPT !.op = "findClosestFromPoint",
                               !.lat_lng = lat_lng, !.n = wanted,
                               !.double_check = double_check,
                               !.from_keys = from_keys]
    IN
    /\ nqueries' = nqueries + 1
    /\ IF from_keys.given /\ from_keys.keys = {}
       THEN last' = call
       ELSE IF EncodeFails(lat_lng)
       THEN last' = [call EXCEPT !.outcome = IF lat_lng = NonePoint
                                             THEN "TypeError" ELSE "Exception"]
       ELSE \E N \in {Min(wanted, Cardinality(DOMAIN keys))} :
            \E case_id \in {computeCaseId(lat_lng)} :
            \E fr \in {recursiveFrontier(case_id, 1, FALSE)} :
            \E loop \in {closestLoop(fr, 1, {}, N, from_keys)} :
            \E found \in {IterKeys(loop.found)} :
            \E seen \in {[call EXCEPT !.case = case_id,
                                      !.rings = SubSeq(fr.rings, 1,
                                          Min(loop.processed, Len(fr.rings))),
                                      !.nrings = loop.processed,
                                      !.warned = ~ loop.broke]} :
               last' = IF ~ loop.broke /\ pep479
                       THEN [seen EXCEPT !.outcome = "RuntimeError"]
                       ELSE [seen EXCEPT !.result =
                               IF double_check
                               THEN Take(sorted(check_distance(found, lat_lng,
                                                               Infinity)), N)
                               ELSE zeroDist(found)]
    /\ UNCHANGED <<it, prev, precision, avg_radius, keys, grid, hashseed, pep479, nadds>>

\* list(a._recursiveFrontier(case_id, N)), as the doctests call it
callRecursiveFrontier(case_id, N) ==
    /\ nqueries' = nqueries + 1
    /\ \E fr \in {recursiveFrontier(case_id, N, TRUE)} :
          last' = [NoCall EXCEPT !.op = "recursiveFrontier", !.case = case_id,
                                 !.n = N, !.rings = fr.rings,
                                 !.nrings = fr.nrings,
                                 !.warned = fr.capped,
                                 !.outcome = IF fr.capped /\ pep479
                                             THEN "RuntimeError" ELSE "ok"]
    /\ UNCHANGED <<it, prev, precision, avg_radius, keys, grid, hashseed, pep479, nadds>>

----------------------------------------------------------------------------
(* The calls of the model *)

\* points given to add: two in one precision-1 cell, one in the cell east of
\* it, one four cells away, one out of range, None
AddPoints == { <<10, 10>>, <<12, 10>>, <<10, 50>>, <<-60, -170>>,
               <<95, 0>>, NonePoint }

\* points queried: two in the cell of <<10, 10>>, one at two steps of the
\* cells of <<10, 50>> and of <<-60, -170>>, which are in one frontier of it
QueryPoints == { <<11, 10>>, <<10, 30>>, <<10, 150>>, <<95, 0>>, NonePoint }

\* radii queried, in metres
Radii == { -6000000, -700000, 0, 2300000, 2500000, 2500001, 7500000 }

\* from_keys: None, the sets of indexed keys, a key that is never indexed
Restrictions ==
    {NoKeys} \cup { FromKeys(S) : S \in (SUBSET Keys) \cup {{NKeys + 1}} }

\* the seeds the interpreter may start with: the ascending and the
\* descending iteration of every set. A behaviour makes at most MaxAdds
\* accepted add(), so that at most two cases of a frontier ever hold keys:
\* the two seeds give these two cases, and any two keys, in both orders
HashSeeds == { -s : s \in 0..MaxSeed }

\* the case ids of a precision
Cases(p) == (0..(Rows(p) - 1)) \X (0..(Cols(p) - 1)) \X {p}

Init ==
    /\ precision \in 1..MaxPrecision
    /\ avg_radius = AvgError(precision)
    /\ keys = EmptyDict
    /\ grid = EmptyDict
    /\ hashseed \in HashSeeds
    /\ pep479 \in BOOLEAN
    /\ nadds = 0
    /\ nqueries = 0
    /\ last = NoCall
    /\ it = NoIter
    /\ prev = NoIter

Add ==
    /\ nadds < MaxAdds
    /\ \E key \in Keys, lat_lng \in AddPoints : add(key, lat_lng)

AddToIndex ==
    /\ nadds < MaxIndexAdds
    /\ \E key \in Keys, lat_lng \in AddPoints : add(key, lat_lng)

FindNearPoint ==
    /\ nqueries < MaxQueries
    /\ \E lat_lng \in QueryPoints, radius \in Radii, double_check \in BOOLEAN :
        findNearPoint(lat_lng, radius, double_check)

FindNearKey ==
    /\ nqueries < MaxQueries
    /\ \E key \in Keys, radius \in Radii, double_check \in BOOLEAN :
        findNearKey(key, radius, double_check)

FindClosestFromPoint ==
    /\ nqueries < MaxQueries
    /\ \E lat_lng \in QueryPoints, wanted \in 0..MaxWanted,
       double_check \in BOOLEAN, from_keys \in Restrictions :
        findClosestFromPoint(lat_lng, wanted, double_check, from_keys)

\* radii around the multiples of the average error avg, in metres
RadiiAround(avg) ==
    { k * avg + d : k \in {0, 1, 7}, d \in {-1, 0, 1} } \cup { -7 * avg, -2 * avg }

\* points queried with them: the first point queried, and None
PointsAround == { <<11, 10>>, NonePoint }

FindNearPointAround ==
    /\ nqueries < MaxQueries
    /\ \E lat_lng \in PointsAround, radius \in RadiiAround(avg_radius),
          double_check \in BOOLEAN :
        findNearPoint(lat_lng, radius, double_check)

FindNearKeyAround ==
    /\ nqueries < MaxQueries
    /\ \E key \in Keys, radius \in RadiiAround(avg_radius),
          double_check \in BOOLEAN :
        findNearKey(key, radius, double_check)

\* the last query, called again with the same arguments
Repeat ==
    /\ nqueries >= 1
    /\ nqueries <= MaxQueries
    /\ CASE last.op = "findNearPoint" ->
              findNearPoint(last.lat_lng, last.radius, last.double_check)
         [] last.op = "findNearKey" ->
              findNearKey(last.key, last.radius, last.double_check)
         [] last.op = "findClosestFromPoint" ->
              findClosestFromPoint(last.lat_lng, last.n, last.double_check,
                                   last.from_keys)
         [] OTHER -> FALSE

\* the case id of the doctests, 't0dbr': a hash of length 5, expanded there
\* on an index of precision 4
t0dbr == <<2113, 5215, 5>>

\* the cases a frontier is expanded from on its own, whatever the precision
\* of the index: every case of the grid of length 1; on the grid of length
\* MaxPrecision + 1 the cases of two corners, of the doctests' airports and
\* of a point added; on the grid of length 5 the case of the doctests, a
\* corner and a case at the line where the longitude index wraps around
FrontierStarts ==
    Cases(1)
      \cup { encode(pt, MaxPrecision + 1) :
                pt \in { <<-90, -180>>, <<89, 179>>, <<48, 2>>, <<10, 10>> } }
      \cup { t0dbr, encode(<<-90, -180>>, 5), encode(<<48, 179>>, 5) }

\* the ring counts asked of a bounded expansion from a case: the small
\* ones and, on the coarsest grid, whose frontiers soon run out, the first
\* one that the cap cuts short
RingCounts(case_id) ==
    (0..MaxRings)
      \cup (IF case_id[3] <= MaxPrecision
            THEN {MAX_RECURSIVE_FRONTIER + 2} ELSE {})

CallRecursiveFrontier ==
    /\ nqueries < MaxQueries
    /\ \E case_id \in FrontierStarts :
         \E N \in RingCounts(case_id) :
            callRecursiveFrontier(case_id, N)

\* the index alone
NextIndex == AddToIndex

SpecIndex == Init /\ [][NextIndex]_vars

\* the index alone, its adds run one statement at a time
AddEntry ==
    /\ nadds < MaxIndexAdds
    /\ ~ AddUnderWay
    /\ \E key \in Keys, lat_lng \in AddPoints : addEntry(key, lat_lng)

AddBucket == addBucket

AddAppend == addAppend

NextAddSteps == AddEntry \/ AddBucket \/ AddAppend

SpecAddSteps == Init /\ [][NextAddSteps]_vars

\* the index and its radius searches
NextNear == Add \/ FindNearPoint \/ FindNearKey \/ IterNext

SpecNear == Init /\ [][NextNear]_vars

\* the index and its top-N search
NextClosest == Add \/ FindClosestFromPoint

SpecClosest == Init /\ [][NextClosest]_vars

\* the index and its radius searches with radii around the multiples of the
\* average error, at a precision whose error is a whole number of km and at
\* one whose error is not (0.61 km); the number of frontiers of a search
\* depends neither on the seed nor on the generator semantics, left fixed
InitAround ==
    /\ precision \in {1, 6}
    /\ avg_radius = AvgError(precision)
    /\ keys = EmptyDict
    /\ grid = EmptyDict
    /\ hashseed = 0
    /\ pep479 = TRUE
    /\ nadds = 0
    /\ nqueries = 0
    /\ last = NoCall
    /\ it = NoIter
    /\ prev = NoIter

NextAround == Add \/ FindNearPointAround \/ FindNearKeyAround \/ IterNext

SpecAround == InitAround /\ [][NextAround]_vars

\* the index and its queries, each query called a second time
NextRepeat ==
    \/ Add
    \/ FindNearPoint
    \/ FindNearKey
    \/ FindClosestFromPoint
    \/ Repeat
    \/ IterNext

SpecRepeat == Init /\ [][NextRepeat]_vars

\* the precisions of the indexes a frontier is expanded on: the first
\* ones, and the one of the doctests, GeoGrid(radius=20)
FrontierPrecisions == (1..(MaxPrecision + 1)) \cup {SelectPrecision(20000)}

\* the frontier generator alone; the expansion iterates over no set whose
\* order shows, so that the interpreter's seed is left fixed
InitFrontier ==
    /\ precision \in FrontierPrecisions
    /\ avg_radius = AvgError(precision)
    /\ keys = EmptyDict
    /\ grid = EmptyDict
    /\ hashseed = 0
    /\ pep479 \in BOOLEAN
    /\ nadds = 0
    /\ nqueries = 0
    /\ last = NoCall
    /\ it = NoIter
    /\ prev = NoIter

NextFrontier == CallRecursiveFrontier

SpecFrontier == InitFrontier /\ [][NextFrontier]_vars

\* radii given to the constructor, in metres: below, at and above the
\* errors of the table, and between them
InitRadii ==
    { -1000, 0, 10, 19, 20, 50, 76, 77, 300, 610, 611, 2000, 2400, 2401,
      10000, 19999, 20000, 20001, 21000, 49000, 50000, 78000, 78001, 300000,
      630000, 630001, 1000000, 2500000, 2500001, 5000000 }

\* an index built from a radius; the selection iterates a dict whose
\* minimum is unique, so that the interpreter's seed and generator
\* semantics are left fixed
InitRadius ==
    /\ \E radius \in InitRadii : GeoGridWithRadius(radius)
    /\ hashseed = 0
    /\ pep479 = TRUE

NextRadius == Add

SpecRadius == InitRadius /\ [][NextRadius]_vars

----------------------------------------------------------------------------
(* What the claims speak of *)

\* the i-th frontier (i >= 1) a call went through
RingOf(call, i) == IF i <= Len(call.rings) THEN call.rings[i] ELSE {}

\* the number of steps between two case ids, moving to one of the 8 cells
\* around at each step: the longitude index wraps around
CaseDist(a, b) ==
    Max(Abs(a[1] - b[1]),
        Min(Abs(a[2] - b[2]), Cols(a[3]) - Abs(a[2] - b[2])))

\* the case ids at d steps from c: they are among the case ids at most d
\* rows and d columns away
CasesAt(c, d) ==
    LET rows == Max(c[1] - d, 0) .. Min(c[1] + d, Rows(c[3]) - 1)
        span == Min(d, Cols(c[3]) \div 2)
        near == { <<r, (c[2] + dc + Cols(c[3])) % Cols(c[3]), c[3]>> :
                     r \in rows, dc \in (-span)..span }
    IN  { x \in near : CaseDist(c, x) = d }

\* the number of times key k is in the bucket of case c
Occurrences(k, c) ==
    IF c \in DOMAIN grid
    THEN Cardinality({ i \in 1..Len(grid[c]) : grid[c][i] = k })
    ELSE 0

IsAdd == last.op = "add"

----------------------------------------------------------------------------
(* C1 *)

\* C1: after any sequence of add calls, accepted or rejected, every key of
\* the key -> entry mapping is in the bucket of the case its entry records.
C1_KeyInItsBucket ==
    \A k \in DOMAIN keys :
        /\ keys[k].case \in DOMAIN grid
        /\ \E i \in 1..Len(grid[keys[k].case]) : grid[keys[k].case][i] = k

\* a key was added again at a point of another case: it is in two buckets
C1_Witness ==
    /\ IsAdd
    /\ \E k \in DOMAIN keys : \E c \in DOMAIN grid :
          c # keys[k].case /\ Occurrences(k, c) > 0

----------------------------------------------------------------------------
(* C2 *)

\* C2: an add whose point the encoder rejects does not raise (it is
\* skipped) and leaves the key -> entry and case -> bucket mappings as they
\* were.
C2_RejectedAddChangesNothing ==
    [][ (nadds' = nadds + 1 /\ EncodeFails(last'.lat_lng))
          => (last'.outcome = "skipped" /\ keys' = keys /\ grid' = grid) ]_vars

\* a rejected add on an index that holds the key already
C2_Witness ==
    /\ IsAdd
    /\ EncodeFails(last.lat_lng)
    /\ last.key \in DOMAIN keys

----------------------------------------------------------------------------
(* C3 *)

\* C3: a bounded expansion from c with N >= 1 emits exactly N frontiers,
\* the first is {c}, each later one is the set of neighbours of the cells
\* of the one before minus the union of all earlier ones, and no two
\* frontiers share a cell.
C3_BoundedRings ==
    (last.op = "recursiveFrontier" /\ last.n >= 1) =>
        /\ last.nrings = last.n
        /\ Len(last.rings) <= last.n
        /\ RingOf(last, 1) = {last.case}
        /\ \A i \in 2..last.n :
              RingOf(last, i) =
                 UNION { neighbors(x) : x \in RingOf(last, i - 1) }
                   \ UNION { RingOf(last, j) : j \in 1..(i - 1) }
        /\ \A i, j \in 1..last.n :
              i # j => RingOf(last, i) \cap RingOf(last, j) = {}

\* the frontiers of the last call that the claims look at one by one: the
\* frontiers after the first empty one are all empty
RingsToCheck == 1..Min(last.n, Len(last.rings) + 1)

\* C3 as amended: a bounded expansion from c with N >= 1 emits exactly N
\* frontiers when N <= MAX_RECURSIVE_FRONTIER + 1; with a greater N it emits
\* MAX_RECURSIVE_FRONTIER + 1 frontiers, prints the warning of the cap and
\* ends as the unbounded expansion does at its cap. In both cases the first
\* frontier is {c}, each later one is the set of neighbours of the cells of
\* the one before minus the union of all earlier ones, and no two
\* frontiers share a cell.
C3_BoundedRingsUpToCap ==
    (last.op = "recursiveFrontier" /\ last.n >= 1) =>
        /\ last.nrings = Min(last.n, MAX_RECURSIVE_FRONTIER + 1)
        /\ last.warned = (last.n > MAX_RECURSIVE_FRONTIER + 1)
        /\ last.outcome = IF last.warned /\ pep479 THEN "RuntimeError"
                          ELSE "ok"
        /\ Len(last.rings) <= last.nrings
        /\ RingOf(last, 1) = {last.case}
        /\ \A i \in RingsToCheck \ {1} :
              RingOf(last, i) =
                 UNION { neighbors(x) : x \in RingOf(last, i - 1) }
                   \ UNION { RingOf(last, j) : j \in 1..(i - 1) }
        /\ \A i, j \in RingsToCheck :
              i # j => RingOf(last, i) \cap RingOf(last, j) = {}

\* the expansion of the doctests: two frontiers from 't0dbr', a case id
\* longer than the precision of the index, the second of 8 cases
C3_Witness ==
    /\ last.op = "recursiveFrontier"
    /\ precision = 4
    /\ last.case = t0dbr
    /\ last.n = 2
    /\ last.rings = << {t0dbr}, neighbors(t0dbr) >>
    /\ Cardinality(last.rings[2]) = 8

----------------------------------------------------------------------------
(* The top-N search, as the claims describe it *)

\* a top-N search that went into its loop
IsClosest == last.op = "findClosestFromPoint"

ClosestSearched == IsClosest /\ last.case # <<>>

\* the expansion cap was reached: frontier number MAX_RECURSIVE_FRONTIER
\* was yielded and one more was asked for
CapReached == last.nrings > MAX_RECURSIVE_FRONTIER

\* N clamped to the number of indexed keys
Wanted == Min(last.n, Cardinality(DOMAIN keys))

Restricted(S) ==
    IF last.from_keys.given THEN S \cap last.from_keys.keys ELSE S

\* the keys of the buckets of the cases at less than r steps from the case
\* of the query, restricted: the keys accumulated over the first r frontiers
Accumulated(r) ==
    Restricted({ k \in Keys : \E c \in DOMAIN grid :
                    CaseDist(last.case, c) < r /\ Occurrences(k, c) > 0 })

\* conditions (a) and (b) on the r-th frontier
StopsAt(r) ==
    /\ Cardinality(Accumulated(r)) >= Wanted
    /\ Cardinality(CasesAt(last.case, r - 1)) > 1

\* no frontier after this many is non-empty
GridSpan == Rows(precision) + Cols(precision)

\* the distance of key k's stored point to the point of the query
DistanceOf(k) == haversine(last.lat_lng, keys[k].lat_lng)

\* the first frontier (from 0) with a bucket that holds key k
DiscoveredAt(k) ==
    CHOOSE d \in 0..GridSpan :
        /\ \E c \in DOMAIN grid :
              CaseDist(last.case, c) = d /\ Occurrences(k, c) > 0
        /\ \A c \in DOMAIN grid :
              Occurrences(k, c) > 0 => CaseDist(last.case, c) >= d

ResultKeys == { last.result[i][2] : i \in 1..Len(last.result) }

----------------------------------------------------------------------------
(* C4 *)

\* C4: when the unbounded expansion reaches its cap, the top-N search ends
\* in an outcome its caller can tell from a normal result: it does not
\* return as if the search had succeeded.
C4_ExhaustionIsDistinguished ==
    (IsClosest /\ CapReached) => last.outcome # "ok"

----------------------------------------------------------------------------
(* C5 *)

\* C5 as claimed: with double_check true or false, findClosestFromPoint
\* returns at most N pairs.
C5_AtMostN ==
    (IsClosest /\ last.outcome = "ok") => Len(last.result) <= last.n

\* C5 as amended: with double_check true findClosestFromPoint returns at
\* most N pairs; with double_check false it returns every key found, each
\* once, which can be more than N and is at most the number of indexed keys.
C5_AtMostNWhenChecked ==
    (IsClosest /\ last.outcome = "ok") =>
        /\ last.double_check => Len(last.result) <= last.n
        /\ ~ last.double_check =>
              /\ Len(last.result) <= Cardinality(DOMAIN keys)
              /\ Cardinality(ResultKeys) = Len(last.result)
              /\ ClosestSearched => ResultKeys = Accumulated(last.nrings)

\* a checked search that cut its result: two keys found in the case of
\* the query, one returned
C5_Witness ==
    /\ IsClosest
    /\ last.outcome = "ok"
    /\ last.double_check
    /\ last.n = 1
    /\ Len(last.result) = 1
    /\ Cardinality(Accumulated(1)) = 2

----------------------------------------------------------------------------
(* C6 *)

\* C6: the top-N search goes through the frontiers in order from the case
\* of the query and stops after the first frontier r at which (a) the keys
\* accumulated so far, restricted, are at least min(N, indexed keys) and
\* (b) the frontier has more than one case; it never stops at the first
\* frontier and goes no further than that r; with no such r it runs to
\* the cap.
C6_StopsAtFirstFullRing ==
    ClosestSearched =>
        /\ \A i \in 1..Len(last.rings) :
              last.rings[i] = CasesAt(last.case, i - 1)
        /\ last.nrings >= 2
        /\ IF \E r \in 1..GridSpan : StopsAt(r)
           THEN /\ StopsAt(last.nrings)
                /\ \A r \in 1..(last.nrings - 1) : ~ StopsAt(r)
                /\ ~ last.warned
                /\ Len(last.rings) = last.nrings
           ELSE CapReached /\ last.warned

\* a restricted search that stopped at its third frontier or later, after
\* frontiers of more than one case that did not hold enough keys
C6_Witness ==
    /\ ClosestSearched
    /\ last.from_keys.given
    /\ ~ last.warned
    /\ last.nrings >= 3
    /\ Wanted >= 1

----------------------------------------------------------------------------
(* C7 *)

\* the part C7 as claimed and C7 as amended share: the pairs are found keys
\* with their exact distance, in ascending order of distance, and they are
\* the first min(N, number found) of all the found keys
C7_SortedAndCut ==
    LET res == last.result
    IN  /\ \A i \in 1..Len(res) :
              /\ res[i][2] \in Accumulated(last.nrings)
              /\ res[i][1] = DistanceOf(res[i][2])
        /\ \A i, j \in 1..Len(res) : i < j => res[i][1] <= res[j][1]
        /\ Cardinality(ResultKeys) = Len(res)
        /\ Len(res) = Min(Wanted, Cardinality(Accumulated(last.nrings)))
        /\ \A k \in Accumulated(last.nrings) \ ResultKeys :
              \A i \in 1..Len(res) : res[i][1] <= DistanceOf(k)

\* C7 as claimed: with double_check true the found keys come with their
\* exact distance in ascending order of distance, cut to N, and two keys at
\* the same distance come in the order of their discovery.
C7_TiesInDiscoveryOrder ==
    (ClosestSearched /\ last.outcome = "ok" /\ last.double_check) =>
        /\ C7_SortedAndCut
        /\ \A i, j \in 1..Len(last.result) :
              (i < j /\ last.result[i][1] = last.result[j][1])
                 => DiscoveredAt(last.result[i][2])
                       <= DiscoveredAt(last.result[j][2])

\* C7 as amended: with double_check true the found keys come with their
\* exact distance in ascending order of distance, cut to N, and two keys at
\* the same distance come in ascending order of the keys, whatever the
\* order of their discovery: the (distance, key) tuples are compared.
C7_TiesInKeyOrder ==
    (ClosestSearched /\ last.outcome = "ok" /\ last.double_check) =>
        /\ C7_SortedAndCut
        /\ \A i, j \in 1..Len(last.result) :
              (i < j /\ last.result[i][1] = last.result[j][1])
                 => last.result[i][2] < last.result[j][2]
        /\ \A k \in Accumulated(last.nrings) \ ResultKeys :
              \A i \in 1..Len(last.result) :
                 last.result[i][1] = DistanceOf(k) => last.result[i][2] < k

\* two keys at the same distance, the one of the greater key discovered in
\* an earlier frontier, both returned
C7_Witness ==
    /\ ClosestSearched
    /\ last.outcome = "ok"
    /\ last.double_check
    /\ Len(last.result) = 2
    /\ last.result[1][1] = last.result[2][1]
    /\ DiscoveredAt(last.result[2][2]) < DiscoveredAt(last.result[1][2])

----------------------------------------------------------------------------
(* The radius searches, as the claims describe them *)

IsNear == it.op \in {"findNearPoint", "findNearKey"}

\* a radius search that returned a generator over an expansion
NearSearched == IsNear /\ it.case # <<>>

\* its iterator was consumed to the end
NearConsumed == NearSearched /\ ~ it.live

\* no add() was called since the call of the search
Undisturbed == it.born = nadds

\* a step of next(it) that yields a pair
Yields == it.live /\ Len(it'.result) = Len(it.result) + 1

\* the point the distances are taken from
QueryPoint ==
    IF it.op = "findNearKey" THEN keys[it.key].lat_lng ELSE it.lat_lng

\* the cases with a bucket among the frontiers the search went through
CasesInReach ==
    { c \in DOMAIN grid : CaseDist(it.case, c) < it.nrings }

\* the number of times key k is in the buckets of those cases
Candidates(k) ==
    Cardinality({ ci \in UNION { {c} \X (1..Len(grid[c])) : c \in CasesInReach } :
                    grid[ci[1]][ci[2]] = k })

\* the number of times key k is in the result
Returned(k) ==
    Cardinality({ i \in 1..Len(it.result) : it.result[i][2] = k })

\* the frontiers gone through are the cases at 0, 1, 2, ... steps
FrontiersInOrder ==
    \A i \in 1..it.nrings : RingOf(it, i) = CasesAt(it.case, i - 1)

\* the sequences that hold each element of S once
Orderings(S) ==
    { f \in [1..Cardinality(S) -> S] :
        \A i, j \in 1..Cardinality(S) : i # j => f[i] # f[j] }

----------------------------------------------------------------------------
(* C8 *)

\* C8 as claimed: a radius search with radius R expands exactly 2 frontiers
\* if R is the average cell error and floor(R / average cell error) + 2
\* otherwise.
C8_RingCountFloor ==
    NearConsumed =>
        /\ FrontiersInOrder
        /\ it.nrings = IF it.radius = avg_radius THEN 2
                       ELSE (it.radius \div avg_radius) + 2

\* the number of frontiers asked for a quotient q: range(q + 2)
RingsFor(q) == Max(0, q + 2)

\* C8 as amended: a radius search with radius R, once its result is
\* consumed to the end, has expanded exactly 2 frontiers if R is the average
\* cell error, and otherwise int(R / average) + 2 (none when that is not
\* positive), where the quotient is a quotient of doubles, truncated toward
\* zero. Off the multiples of the average that is floor(R / average) + 2 for
\* R >= 0 and 2 - floor(-R / average) for R < 0. At a multiple k * average
\* the quotient of the doubles is k or just below k, so that the count is
\* |k| + 2 or |k| + 1 for R > 0 (2 - |k| or 3 - |k| for R < 0): it is always
\* the former when the average is a whole number of km, and the latter at
\* 4.27 km with the average of 0.61 km (8 frontiers, not 9). The frontiers
\* are expanded as the result is consumed, never more than that count. The
\* counts are those below the cap of the expansion.
C8_RingCountFloatQuotient ==
    NearSearched =>
        LET R    == it.radius
            k    == Abs(R) \div avg_radius
            sign == IF R >= 0 THEN 1 ELSE -1
            most == IF R = avg_radius THEN 2
                    ELSE IF Abs(R) % avg_radius # 0 THEN RingsFor(sign * k)
                    ELSE Max(RingsFor(sign * k), RingsFor(sign * (k - 1)))
        IN  /\ FrontiersInOrder
            /\ ~ it.warned
            /\ it.nrings <= most
            /\ (~ it.live /\ R = avg_radius) => it.nrings = 2
            /\ (~ it.live /\ R # avg_radius /\ Abs(R) % avg_radius # 0) =>
                  it.nrings = RingsFor(sign * k)
            /\ (~ it.live /\ R # avg_radius /\ Abs(R) % avg_radius = 0) =>
                  /\ it.nrings \in { RingsFor(sign * k),
                                     RingsFor(sign * (k - 1)) }
                  /\ (avg_radius % 1000 = 0 \/ k = 0) =>
                        it.nrings = RingsFor(sign * k)
                  /\ (avg_radius = 610 /\ R = 4270) => it.nrings = 8
                  /\ (avg_radius = 610 /\ R = -4270) => it.nrings = 0
                  /\ (avg_radius = 610 /\ R = -1220) => it.nrings = 0

\* a search with 7 times the average error of 0.61 km as its radius,
\* consumed to the end: 8 frontiers, none empty
C8_Witness ==
    /\ NearConsumed
    /\ precision = 6
    /\ it.radius = 7 * avg_radius
    /\ it.nrings = 8
    /\ it.rings[8] # {}

----------------------------------------------------------------------------
(* C9 *)

\* the result holds exactly the candidates of the expanded frontiers whose
\* stored point is at a distance <= R of the query point, each with that
\* distance; for findNearKey the query point is the stored point of the key
CheckedResult ==
    /\ \A i \in 1..Len(it.result) :
          /\ it.result[i][2] \in DOMAIN keys
          /\ it.result[i][1] =
                haversine(QueryPoint, keys[it.result[i][2]].lat_lng)
          /\ it.result[i][1] <= it.radius
    /\ \A k \in Keys :
          Returned(k) =
             IF k \in DOMAIN keys
                /\ haversine(QueryPoint, keys[k].lat_lng) <= it.radius
             THEN Candidates(k) ELSE 0

\* C9 as claimed: when a radius search with double_check true has returned
\* its last pair, its result holds exactly the candidates of the expanded
\* frontiers whose currently stored point is at a distance <= R of the
\* query point, each with that distance; for findNearKey the query point is
\* the current stored point of the key.
C9_CheckedRadiusSearch ==
    [][ (it.live /\ ~ it'.live /\ NearSearched /\ it.double_check) =>
           CheckedResult' ]_vars

\* C9 as amended: the result of a radius search with double_check true is
\* produced as it is consumed. Each pair yielded is a key read in the bucket
\* of a case of the current frontier, with the distance from the reference
\* point fixed at the call (for findNearKey the point the key had at the
\* call) to the point the key has when the pair is yielded, which is <= R.
\* When no add() is made between the call and the end of the consumption,
\* the result is as claimed.
C9_CheckedAsConsumed ==
    /\ [] ((NearConsumed /\ it.double_check /\ Undisturbed) => CheckedResult)
    /\ [][ (Yields /\ it.double_check) =>
              LET e == it'.result[Len(it'.result)]
              IN  /\ it'.result = Append(it.result, e)
                  /\ it'.at \in DOMAIN grid
                  /\ CaseDist(it.case, it'.at) = it'.nrings - 1
                  /\ e[2] = grid[it'.at][it'.idx]
                  /\ e[1] = haversine(it.lat_lng, keys[e[2]].lat_lng)
                  /\ e[1] <= it.radius ]_vars

\* a checked search from a key, consumed to the end with no add() in
\* between, that kept a candidate and dropped another
C9_Witness ==
    /\ NearConsumed
    /\ Undisturbed
    /\ it.op = "findNearKey"
    /\ it.double_check
    /\ Len(it.result) >= 1
    /\ \E k \in DOMAIN keys :
          Candidates(k) > 0 /\ haversine(QueryPoint, keys[k].lat_lng) > it.radius

----------------------------------------------------------------------------
(* C10 *)

\* the result holds, each with distance 0, the buckets of the cases of the
\* expanded frontiers one after the other: the frontiers in the order of
\* the expansion, each bucket in its insertion order, every occurrence of a
\* key returned
UncheckedResult ==
    \E f \in Orderings(CasesInReach) :
        /\ \A i, j \in 1..Cardinality(CasesInReach) :
              i < j => CaseDist(it.case, f[i]) <= CaseDist(it.case, f[j])
        /\ LET all == Concat([i \in 1..Cardinality(CasesInReach) |->
                                 grid[f[i]]])
           IN  it.result = [i \in 1..Len(all) |-> <<0, all[i]>>]

\* C10 as claimed: when a radius search with double_check false has
\* returned its last pair, its result is, each with distance 0, the
\* concatenation of the buckets of the cases of the expanded frontiers.
C10_UncheckedRadiusSearch ==
    [][ (it.live /\ ~ it'.live /\ NearSearched /\ ~ it.double_check) =>
           UncheckedResult' ]_vars

\* C10 as amended: the result of a radius search with double_check false is
\* produced as it is consumed. Each pair yielded is, with distance 0, the
\* next element of the bucket of a case of the current frontier, as the
\* bucket is when the pair is yielded: the frontiers come in the order of
\* the expansion and a bucket in its insertion order. When no add() is made
\* between the call and the end of the consumption, the result is as
\* claimed.
C10_UncheckedAsConsumed ==
    /\ [] ((NearConsumed /\ ~ it.double_check /\ Undisturbed) =>
              UncheckedResult)
    /\ [][ (Yields /\ ~ it.double_check) =>
              LET e == it'.result[Len(it'.result)]
              IN  /\ it'.result = Append(it.result, e)
                  /\ it'.at \in DOMAIN grid
                  /\ CaseDist(it.case, it'.at) = it'.nrings - 1
                  /\ it'.nrings >= it.nrings
                  /\ (it'.at = it.at /\ it'.nrings = it.nrings) =>
                        it'.idx = it.idx + 1
                  /\ (it'.at # it.at \/ it'.nrings # it.nrings) => it'.idx = 1
                  /\ e = <<0, grid[it'.at][it'.idx]>> ]_vars

\* a search consumed to the end with no add() in between, that returns
\* two keys from two cases of one frontier, the key of the greater case id
\* first: the order the ascending iteration of the frontier does not give
C10_Witness ==
    /\ NearConsumed
    /\ Undisturbed
    /\ ~ it.double_check
    /\ Len(it.result) = 2
    /\ Cardinality(CasesInReach) = 2
    /\ LET a == keys[it.result[1][2]].case
           b == keys[it.result[2][2]].case
       IN  /\ CasesInReach = {a, b}
           /\ CaseDist(it.case, a) = CaseDist(it.case, b)
           /\ CaseLess(b, a)

----------------------------------------------------------------------------
(* C11 *)

\* C11: findClosestFromPoint with a from_keys that is given and empty
\* returns an empty result at once, whatever the index, the point and N: no
\* frontier is expanded, the cap is not reached, nothing is raised and no
\* warning is printed.
C11_EmptyRestrictionShortCircuits ==
    (IsClosest /\ last.from_keys.given /\ last.from_keys.keys = {}) =>
        /\ last.outcome = "ok"
        /\ last.result = <<>>
        /\ last.case = <<>>
        /\ last.rings = <<>>
        /\ last.nrings = 0
        /\ ~ last.warned

\* an empty restriction on an index that holds keys, with N >= 1
C11_Witness ==
    /\ IsClosest
    /\ last.from_keys.given
    /\ last.from_keys.keys = {}
    /\ last.n >= 1
    /\ DOMAIN keys # {}
    /\ ~ EncodeFails(last.lat_lng)

----------------------------------------------------------------------------
(* C12 *)

\* a radius search whose subject is missing: findNearKey on a key with no
\* entry, findNearPoint on None
NearOnMissing(call, entries) ==
    \/ call.op = "findNearKey" /\ call.key \notin DOMAIN entries
    \/ call.op = "findNearPoint" /\ call.lat_lng = NonePoint

\* C12: findNearKey on a key with no entry in the index and findNearPoint
\* on a missing point return an empty sequence, for every radius and either
\* double_check: nothing is raised, what is returned is an iterator with
\* nothing to give, no frontier is expanded and the index is left as it was.
C12_MissingSubjectGivesEmpty ==
    [][ (nqueries' = nqueries + 1 /\ NearOnMissing(last', keys)) =>
           /\ last'.outcome = "ok"
           /\ it'.op = last'.op
           /\ it'.outcome = "ok"
           /\ ~ it'.live
           /\ it'.result = <<>>
           /\ it'.case = <<>>
           /\ it'.rings = <<>>
           /\ it'.nrings = 0
           /\ keys' = keys
           /\ grid' = grid
           /\ precision' = precision
           /\ avg_radius' = avg_radius ]_vars

\* a checked findNearKey on a key without entry, after an add of another
\* key was accepted and every add was made
C12_Witness ==
    /\ last.op = "findNearKey"
    /\ last.key \notin DOMAIN keys
    /\ it.op = "findNearKey"
    /\ it.key = last.key
    /\ ~ it.live
    /\ it.result = <<>>
    /\ last.double_check
    /\ last.radius > 0
    /\ DOMAIN keys # {}
    /\ nadds = MaxAdds

----------------------------------------------------------------------------
(* C13 *)

\* the number of elements of the buckets of g, over all its cases
RECURSIVE TotalElements(_)
TotalElements(g) ==
    IF DOMAIN g = {} THEN 0
    ELSE LET c == CHOOSE x \in DOMAIN g : TRUE
         IN  Len(g[c]) + TotalElements([x \in DOMAIN g \ {c} |-> g[x]])

\* an add step that was accepted
AcceptedAdd == nadds' = nadds + 1 /\ ~ EncodeFails(last'.lat_lng)

\* C13: an accepted add of key k at a point of case c overwrites the entry
\* of k alone, appends k once at the end of the bucket of c and leaves every
\* other bucket as it was (the occurrences of k in other buckets and earlier
\* in the bucket of c stay); a rejected add appends nothing. So the number
\* of bucket elements over all cases, 0 at the start, is the number of
\* accepted adds.
C13_AddAppendsOnce ==
    /\ TotalElements(grid) = 0
    /\ [][ /\ AcceptedAdd =>
                LET k == last'.key
                    c == last'.case
                IN  /\ DOMAIN keys' = DOMAIN keys \cup {k}
                    /\ \A x \in DOMAIN keys \ {k} : keys'[x] = keys[x]
                    /\ DOMAIN grid' = DOMAIN grid \cup {c}
                    /\ \A x \in DOMAIN grid \ {c} : grid'[x] = grid[x]
                    /\ grid'[c] = Append(IF c \in DOMAIN grid THEN grid[c]
                                         ELSE <<>>, k)
                    /\ TotalElements(grid') = TotalElements(grid) + 1
                    /\ precision' = precision
           /\ (nadds' = nadds + 1 /\ EncodeFails(last'.lat_lng)) =>
                TotalElements(grid') = TotalElements(grid) ]_vars

\* a key added three times: it stays in the bucket of the case it was in
\* first and is twice in the bucket of its entry
C13_Witness ==
    /\ IsAdd
    /\ last.outcome = "ok"
    /\ Occurrences(last.key, last.case) = 2
    /\ \E c \in DOMAIN grid : c # last.case /\ Occurrences(last.key, c) = 1
    /\ TotalElements(grid) = 3

----------------------------------------------------------------------------
(* C14 *)

\* C14: the entry of every key of the index records the point of the last
\* accepted add of that key and the case the encoder gives for that point
\* at the precision of the index: an accepted add of (k, p) leaves
\* [case = encode(p, precision), lat_lng = p] as the entry of k, a rejected
\* add of k leaves the entry of k as it was, and at every moment the case
\* of an entry is the encoding of its point.
C14_LatestWriteWins ==
    /\ [](\A k \in DOMAIN keys :
             /\ ~ EncodeFails(keys[k].lat_lng)
             /\ keys[k].case = encode(keys[k].lat_lng, precision))
    /\ [][ /\ AcceptedAdd =>
                /\ last'.key \in DOMAIN keys'
                /\ keys'[last'.key] =
                      [case |-> encode(last'.lat_lng, precision),
                       lat_lng |-> last'.lat_lng]
           /\ (nadds' = nadds + 1 /\ EncodeFails(last'.lat_lng)) =>
                keys' = keys ]_vars

\* a rejected add of a key whose entry was written twice, at points of two
\* cases: the entry is the one of the second point
C14_Witness ==
    /\ IsAdd
    /\ last.outcome = "skipped"
    /\ last.key \in DOMAIN keys
    /\ \E c \in DOMAIN grid :
          c # keys[last.key].case /\ Occurrences(last.key, c) > 0

----------------------------------------------------------------------------
(* C15 *)

\* the number of cases of a sequence of frontiers
RECURSIVE SumOfSizes(_)
SumOfSizes(rings) ==
    IF rings = <<>> THEN 0
    ELSE Cardinality(Head(rings)) + SumOfSizes(Tail(rings))

\* the n frontiers from case c meet no pole and do not go around the globe
FarFromEdges(c, n) ==
    /\ c[1] - (n - 1) >= 0
    /\ c[1] + (n - 1) <= Rows(c[3]) - 1
    /\ 2 * (n - 1) + 1 <= Cols(c[3])

\* C15: from a case far from the edges of the grid, a bounded expansion of
\* N frontiers gives a frontier of 8 * i cases at each step i >= 1 and
\* (2N - 1)^2 cases in all: 9 for N = 2, 25 for N = 3, 49 for N = 4 and 81
\* for N = 5.
C15_RingSizes ==
    (last.op = "recursiveFrontier" /\ last.n >= 1
        /\ FarFromEdges(last.case, last.n)) =>
        /\ Len(last.rings) = last.n
        /\ Cardinality(last.rings[1]) = 1
        /\ \A i \in 1..(last.n - 1) : Cardinality(last.rings[i + 1]) = 8 * i
        /\ SumOfSizes(last.rings) = (2 * last.n - 1) * (2 * last.n - 1)
        /\ last.n = 2 => SumOfSizes(last.rings) = 9
        /\ last.n = 3 => SumOfSizes(last.rings) = 25
        /\ last.n = 4 => SumOfSizes(last.rings) = 49
        /\ last.n = 5 => SumOfSizes(last.rings) = 81

\* the doctests: five frontiers, 81 cases, from 't0dbr' on an index of
\* precision 4
C15_Witness ==
    /\ last.op = "recursiveFrontier"
    /\ precision = 4
    /\ last.case = t0dbr
    /\ last.n = 5
    /\ FarFromEdges(last.case, last.n)
    /\ SumOfSizes(last.rings) = 81

----------------------------------------------------------------------------
(* C16 *)

\* the index as its constructor left it, built from a radius
BuiltFromRadius == last.op = "GeoGrid"

\* C16: an index built from radius r has the precision p of 1..8 whose key
\* (avgError(p) < r, |r - avgError(p)|) is the least, FALSE before TRUE:
\* when some level has an error >= r, p has an error >= r and is the
\* closest to r among those; when every level has an error below r, p is
\* the closest to r of all; r = 20 km gives level 4; and the average radius
\* of the index is the error of p in the table.
C16_PrecisionSelection ==
    BuiltFromRadius =>
        LET r      == last.radius
            Enough == { q \in Precisions : AvgError(q) >= r }
        IN  /\ precision \in Precisions
            /\ Enough # {} =>
                  /\ precision \in Enough
                  /\ \A q \in Enough \ {precision} :
                        AvgError(precision) - r < AvgError(q) - r
            /\ Enough = {} =>
                  \A q \in Precisions \ {precision} :
                      Abs(r - AvgError(precision)) < Abs(r - AvgError(q))
            /\ r = 20000 => precision = 4
            /\ avg_radius = AvgError(precision)
            /\ avg_radius \in { 2500000, 630000, 78000, 20000, 2400, 610, 76, 19 }

\* a radius just above the error of level 4: level 3 is selected, though
\* level 4 is closer
C16_Witness ==
    /\ BuiltFromRadius
    /\ last.radius = 21000
    /\ precision = 3
    /\ avg_radius = 78000

----------------------------------------------------------------------------
(* C17 *)

IsQuery(call) ==
    call.op \in {"findNearPoint", "findNearKey", "findClosestFromPoint"}

\* two calls of the same query with the same arguments (the point of a
\* findNearKey is no argument: it is read in the index)
SameQuery(a, b) ==
    /\ IsQuery(a)
    /\ a.op = b.op
    /\ a.key = b.key
    /\ a.op # "findNearKey" => a.lat_lng = b.lat_lng
    /\ a.radius = b.radius
    /\ a.n = b.n
    /\ a.double_check = b.double_check
    /\ a.from_keys = b.from_keys

\* two radius searches called with the same arguments
SameSearch(a, b) ==
    /\ a.op \in {"findNearPoint", "findNearKey"}
    /\ a.op = b.op
    /\ a.key = b.key
    /\ a.op # "findNearKey" => a.lat_lng = b.lat_lng
    /\ a.radius = b.radius
    /\ a.double_check = b.double_check

\* C17: no call of findNearPoint, findNearKey or findClosestFromPoint, with
\* either double_check, and no consumption of the iterator of a radius
\* search, changes the key -> entry mapping, the case -> bucket mapping or
\* the precision; and a query run again with the same arguments, with no
\* add from the first call to the end of the second run, ends the same way
\* with the same result sequence.
C17_QueriesChangeNothing ==
    /\ [][ (nqueries' = nqueries + 1 /\ IsQuery(last')) =>
               /\ keys' = keys
               /\ grid' = grid
               /\ precision' = precision
               /\ avg_radius' = avg_radius
               /\ SameQuery(last, last') =>
                     /\ last'.outcome = last.outcome
                     /\ last'.result = last.result ]_vars
    /\ [][ (it.live /\ it' # it) =>
               /\ keys' = keys
               /\ grid' = grid
               /\ precision' = precision
               /\ avg_radius' = avg_radius ]_vars
    /\ [] ((SameSearch(prev, it) /\ ~ prev.live /\ ~ it.live
                /\ prev.born = nadds) =>
               /\ it.outcome = prev.outcome
               /\ it.result = prev.result
               /\ it.nrings = prev.nrings
               /\ it.warned = prev.warned)

\* an unchecked top-N search called twice on an index of two keys: both
\* keys returned, in the iteration order of a set
C17_Witness ==
    /\ nqueries = 2
    /\ IsClosest
    /\ ~ last.double_check
    /\ Len(last.result) = 2
    /\ last.result[1][2] > last.result[2][2]

----------------------------------------------------------------------------
(* C18 *)

\* C18: the unbounded expansion of a top-N search never yields more than
\* MAX_RECURSIVE_FRONTIER frontiers, the first one counted.
C18_AtMostMaxRings ==
    ClosestSearched => last.nrings <= MAX_RECURSIVE_FRONTIER

----------------------------------------------------------------------------
(* C19 *)

\* C19: a top-N search with a restriction set that is not empty and
\* N >= 1 leaves its loop by the break and never reaches the cap of the
\* expansion, also when the restriction holds fewer than N indexed keys,
\* or none.
C19_RestrictionNeverHitsCap ==
    (ClosestSearched /\ last.from_keys.given /\ last.from_keys.keys # {}
        /\ last.n >= 1) =>
        /\ ~ last.warned
        /\ last.nrings < MAX_RECURSIVE_FRONTIER
        /\ last.outcome = "ok"

----------------------------------------------------------------------------
(* C20 *)

\* C20: after any sequence of adds, and between any two statements of an
\* add, every key of every bucket has an entry in the key -> entry mapping
\* (the entry is written before the bucket is appended to): the lookup
\* self._keys[can] of _check_distance finds every key the buckets give.
C20_BucketKeysHaveEntries ==
    \A c \in DOMAIN grid :
        \A i \in 1..Len(grid[c]) : grid[c][i] \in DOMAIN keys

\* inside an add of a key that is in a bucket already: the entry is
\* written with the new case, whose bucket is created and still empty
C20_Witness ==
    /\ AddUnderWay
    /\ last.outcome = "line 119"
    /\ grid[last.case] = <<>>
    /\ keys[last.key].case = last.case
    /\ \E c \in DOMAIN grid : Occurrences(last.key, c) > 0

====
